---- MODULE Spec2Model ----
(***************************************************************************)
(* The prefer-object-params ESLint rule (src/src/index.ts).                *)
(*                                                                         *)
(* One rule instance lints one file: create() reads the options once, and  *)
(* ESLint then calls checkParams for every function node of the file in    *)
(* document order.  The state is the options object, the file name, the    *)
(* function nodes of the file, the position of the traversal and the       *)
(* diagnostics reported so far, with the number of times the file name has *)
(* been read.                                                              *)
(*                                                                         *)
(* Text that the code inspects character by character (the file name, the  *)
(* glob patterns) is a sequence of one-character strings; names that the   *)
(* code only compares and concatenates are strings.  A value that may be   *)
(* undefined or null is a sequence of length 0 or 1.                       *)
(***************************************************************************)
EXTENDS Integers, Sequences, FiniteSets, TLC

VARIABLES
    options,    \* the options object handed to create()
    filename,   \* context.getFilename()
    ast,        \* the function nodes of the file, in document order
    pos,        \* index in ast of the next node the traversal visits
    sink,       \* the diagnostics passed to context.report, in order
    raised,     \* TRUE once a visit has thrown (the traversal is aborted)
    getFilename \* the number of calls of context.getFilename() so far

vars == <<options, filename, ast, pos, sink, raised, getFilename>>

\* ------------------------------------------------------------------ bounds
MaxParams == 3      \* longest parameter list of the shape corpus
MaxNodes == 2       \* most function nodes in a file of the traversal corpus

\* ------------------------------------------------------- optional values
Absent == <<>>
Some(v) == <<v>>
Range(s) == {s[i] : i \in DOMAIN s}

\* ----------------------------------------------------------- AST values
\* A literal's value: kind is "string", "number", "boolean" or "null".
StrVal(s) == [kind |-> "string", str |-> s, num |-> 0, bool |-> FALSE]
NumVal(n) == [kind |-> "number", str |-> "", num |-> n, bool |-> FALSE]
BoolVal(b) == [kind |-> "boolean", str |-> "", num |-> 0, bool |-> b]
NullVal == [kind |-> "null", str |-> "", num |-> 0, bool |-> FALSE]

\* An expression or pattern node, as far as the rule reads it: its type, its
\* name (Identifier, PrivateIdentifier) and its value (Literal).
Expr(type, name, value) == [type |-> type, name |-> name, value |-> value]
Identifier(name) == Expr("Identifier", name, NullVal)
Literal(value) == Expr("Literal", "", value)
PrivateIdentifier(name) == Expr("PrivateIdentifier", name, NullVal)
Other(type) == Expr(type, "", NullVal)
NoNode == Other("None")

\* A parameter node: left is the left side of an AssignmentPattern.
Param(type, name, left) == [type |-> type, name |-> name, left |-> left]

\* The parent of a function node: key (members), kind (MethodDefinition,
\* Property), computed and method (Property) flags, id (VariableDeclarator),
\* left (AssignmentExpression).
Parent(type, key, kind, computed, method, id, left) ==
    [type |-> type, key |-> key, kind |-> kind, computed |-> computed,
     method |-> method, id |-> id, left |-> left]

\* A function node: id is Absent or Some(name).
Fn(type, id, parent, params) ==
    [type |-> type, id |-> id, parent |-> parent, params |-> params]

\* ------------------------------------------------- options read by create
OrEmpty(list) == IF list = Absent THEN <<>> ELSE list[1]
Nullish(opt, default) == IF opt = Absent THEN default ELSE opt[1]

ignoreFunctions == Range(OrEmpty(options.ignoreFunctions))
ignoreMethods == Range(OrEmpty(options.ignoreMethods))
ignoreConstructors == Nullish(options.ignoreConstructors, TRUE)
\* Mutant: the option defaults to false.
ignoreSingleParamDefaultFalse == Nullish(options.ignoreSingleParam, FALSE)
ignoreSingleParam == Nullish(options.ignoreSingleParam, TRUE)
\* Mutant: the option defaults to false.
ignoreNoParamsDefaultFalse == Nullish(options.ignoreNoParams, FALSE)
ignoreNoParams == Nullish(options.ignoreNoParams, TRUE)
ignoreTestFiles == Nullish(options.ignoreTestFiles, TRUE)
ignoreFiles == OrEmpty(options.ignoreFiles)

\* --------------------------------------------------------- shouldIgnoreFile
\* The regular expression /\.(test|spec)\.(ts|tsx|js|jsx|mjs|cjs)$/i .
ToLower(c) ==
    CASE c = "T" -> "t" [] c = "E" -> "e" [] c = "S" -> "s" [] c = "P" -> "p"
      [] c = "C" -> "c" [] c = "J" -> "j" [] c = "X" -> "x" [] c = "M" -> "m"
      [] OTHER -> c
LowerCase(s) == [i \in DOMAIN s |-> ToLower(s[i])]
EndsWith(s, suffix) ==
    /\ Len(s) >= Len(suffix)
    /\ SubSeq(s, Len(s) - Len(suffix) + 1, Len(s)) = suffix
TestWords == {<<"t", "e", "s", "t">>, <<"s", "p", "e", "c">>}
TestExtensions ==
    {<<"t", "s">>, <<"t", "s", "x">>, <<"j", "s">>, <<"j", "s", "x">>,
     <<"m", "j", "s">>, <<"c", "j", "s">>}
testPattern(str) ==
    LET lower == LowerCase(str) IN
    \E w \in TestWords, e \in TestExtensions :
        EndsWith(lower, <<".">> \o w \o <<".">> \o e)

\* picomatch(globs)(str) with default options: "*" matches within one path
\* segment, a "**" segment matches any number of segments, neither matches a
\* segment that starts with a dot, and an empty pattern is rejected with a
\* TypeError when the matcher is built.
FirstSlash(s) ==
    IF \E k \in DOMAIN s : s[k] = "/"
    THEN CHOOSE k \in DOMAIN s : s[k] = "/" /\ \A j \in 1..(k - 1) : s[j] # "/"
    ELSE 0
Rest(s, k) == SubSeq(s, k + 1, Len(s))
NoDotSegment(s) ==
    /\ s = <<>> \/ s[1] # "."
    /\ \A k \in DOMAIN s : (s[k] = "/" /\ k < Len(s)) => s[k + 1] # "."
IsGlobstarSlash(p) == Len(p) >= 3 /\ SubSeq(p, 1, 3) = <<"*", "*", "/">>

RECURSIVE GlobMatch(_, _, _)
GlobMatch(p, s, start) ==
    IF p = <<>> THEN s = <<>>
    ELSE IF start /\ IsGlobstarSlash(p)
    THEN \/ GlobMatch(Rest(p, 3), s, TRUE)
         \/ /\ FirstSlash(s) > 1
            /\ s[1] # "."
            /\ GlobMatch(p, Rest(s, FirstSlash(s)), TRUE)
    ELSE IF start /\ p = <<"*", "*">> THEN NoDotSegment(s)
    ELSE IF p = <<"/", "*", "*">>
    THEN s = <<>> \/ (s[1] = "/" /\ NoDotSegment(Rest(s, 1)))
    ELSE IF p[1] = "*"
    THEN /\ start => (s # <<>> /\ s[1] # ".")
         /\ \/ GlobMatch(Tail(p), s, FALSE)
            \/ s # <<>> /\ s[1] # "/" /\ GlobMatch(p, Tail(s), FALSE)
    ELSE /\ s # <<>>
         /\ s[1] = p[1]
         /\ GlobMatch(Tail(p), Tail(s), p[1] = "/")

picomatchThrows(globs) == \E i \in DOMAIN globs : globs[i] = <<>>
isMatch(globs, str) == \E i \in DOMAIN globs : GlobMatch(globs[i], str, TRUE)

\* shouldIgnoreFile returns before reading the path when no file option is on.
readsFilename == ignoreTestFiles \/ Len(ignoreFiles) > 0

\* The result is "true", "false", or "throw" when picomatch rejects a pattern.
shouldIgnoreFile ==
    IF ~ignoreTestFiles /\ Len(ignoreFiles) = 0 THEN "false"
    ELSE IF ignoreTestFiles /\ testPattern(filename) THEN "true"
    ELSE IF Len(ignoreFiles) > 0
    THEN IF picomatchThrows(ignoreFiles) THEN "throw"
         ELSE IF isMatch(ignoreFiles, filename) THEN "true"
         ELSE "false"
    ELSE "false"

\* ------------------------------------------------------- getPropertyKeyName
\* String(value) of a literal's value.
String(value) ==
    CASE value.kind = "string" -> value.str
      [] value.kind = "number" -> ToString(value.num)
      [] value.kind = "boolean" -> (IF value.bool THEN "true" ELSE "false")
      [] OTHER -> "null"

\* Mutant: a private name resolves without its "#".
getPropertyKeyNameNoHash(key) ==
    IF key.type = "Identifier" THEN Some(key.name)
    ELSE IF key.type = "Literal" /\ key.value.kind # "null"
    THEN Some(String(key.value))
    ELSE IF key.type = "PrivateIdentifier" THEN Some(key.name)
    ELSE Absent

\* Absent stands for null.
getPropertyKeyName(key) ==
    IF key.type = "Identifier" THEN Some(key.name)
    ELSE IF key.type = "Literal" /\ key.value.kind # "null"
    THEN Some(String(key.value))
    ELSE IF key.type = "PrivateIdentifier" THEN Some("#" \o key.name)
    ELSE Absent

\* `keyName && set.has(keyName)`: null and the empty string are falsy.
Truthy(keyName) == keyName # Absent /\ keyName[1] # ""

\* ----------------------------------------------------- shouldIgnoreFunction
MemberParentTypes == {"MethodDefinition", "PropertyDefinition", "Property"}

ignoredByMethodKey(node) ==
    /\ node.parent.type \in MemberParentTypes
    /\ node.parent.key # Absent
    /\ LET keyName == getPropertyKeyName(node.parent.key[1])
       IN Truthy(keyName) /\ keyName[1] \in ignoreMethods

\* Mutant: the constructor check does not read the option.
ignoredAsConstructorAlways(node) ==
    /\ node.parent.type \in MemberParentTypes
    /\ node.parent.kind = "constructor"

ignoredAsConstructor(node) ==
    /\ node.parent.type \in MemberParentTypes
    /\ ignoreConstructors
    /\ node.parent.kind = "constructor"

ignoredByOwnName(node) ==
    node.id # Absent /\ node.id[1] \in ignoreFunctions

\* Mutant: the declarator is consulted for a function with a name of its own.
ignoredByDeclaratorNamedToo(node) ==
    /\ node.parent.type = "VariableDeclarator"
    /\ node.parent.id.type = "Identifier"
    /\ node.parent.id.name \in ignoreFunctions

ignoredByDeclarator(node) ==
    /\ node.id = Absent
    /\ node.parent.type = "VariableDeclarator"
    /\ node.parent.id.type = "Identifier"
    /\ node.parent.id.name \in ignoreFunctions

ignoredByPropertyKey(node) ==
    /\ node.id = Absent
    /\ node.parent.type = "Property"
    /\ node.parent.key # Absent
    /\ LET keyName == getPropertyKeyName(node.parent.key[1])
       IN Truthy(keyName) /\ keyName[1] \in ignoreFunctions

ignoredByAssignment(node) ==
    /\ node.id = Absent
    /\ node.parent.type = "AssignmentExpression"
    /\ node.parent.left.type = "Identifier"
    /\ node.parent.left.name \in ignoreFunctions

shouldIgnoreFunction(node) ==
    \/ ignoredByMethodKey(node)
    \/ ignoredAsConstructor(node)
    \/ ignoredByOwnName(node)
    \/ ignoredByDeclarator(node)
    \/ ignoredByPropertyKey(node)
    \/ ignoredByAssignment(node)

\* -------------------------------------------------------------- checkParams
\* Mutant: `this` is pushed like any other name.
violationNameThisReported(param) ==
    IF param.type \in {"ObjectPattern", "ArrayPattern", "RestElement"}
    THEN <<>>
    ELSE IF param.type = "Identifier" THEN <<param.name>>
    ELSE IF param.type = "AssignmentPattern"
    THEN IF param.left.type \in {"ObjectPattern", "ArrayPattern"} THEN <<>>
         ELSE IF param.left.type = "Identifier" THEN <<param.left.name>>
         ELSE <<>>
    ELSE <<>>

\* The loop body for one parameter: what it pushes onto paramNames (nothing
\* for an allowed shape, and nothing for a shape no branch recognises).
violationName(param) ==
    IF param.type \in {"ObjectPattern", "ArrayPattern", "RestElement"}
    THEN <<>>
    ELSE IF param.type = "Identifier" /\ param.name = "this" THEN <<>>
    ELSE IF param.type = "Identifier" THEN <<param.name>>
    ELSE IF param.type = "AssignmentPattern"
    THEN IF param.left.type \in {"ObjectPattern", "ArrayPattern"} THEN <<>>
         ELSE IF param.left.type = "Identifier" THEN <<param.left.name>>
         ELSE <<>>
    ELSE <<>>

\* Mutant: every offending parameter overwrites the anchor, the last one wins.
firstViolationParamLast(params) ==
    IF \E i \in DOMAIN params : violationName(params[i]) # <<>>
    THEN CHOOSE i \in DOMAIN params :
            /\ violationName(params[i]) # <<>>
            /\ \A j \in (i + 1)..Len(params) : violationName(params[j]) = <<>>
    ELSE 0

\* Index of the first parameter that pushed a name; 0 stands for null.
firstViolationParam(params) ==
    IF \E i \in DOMAIN params : violationName(params[i]) # <<>>
    THEN CHOOSE i \in DOMAIN params :
            /\ violationName(params[i]) # <<>>
            /\ \A j \in 1..(i - 1) : violationName(params[j]) = <<>>
    ELSE 0

\* Mutant: the scan stops at the first offending parameter.
paramNamesStopAtFirst(params) ==
    IF firstViolationParam(params) = 0 THEN <<>>
    ELSE violationName(params[firstViolationParam(params)])

RECURSIVE paramNames(_)
paramNames(params) ==
    IF params = <<>> THEN <<>>
    ELSE violationName(Head(params)) \o paramNames(Tail(params))

RECURSIVE join(_, _)
join(names, sep) ==
    IF names = <<>> THEN ""
    ELSE IF Len(names) = 1 THEN names[1]
    ELSE names[1] \o sep \o join(Tail(names), sep)

\* node.id?.name || 'function'
noParamsName(node) == IF node.id # Absent THEN node.id[1] ELSE "function"

\* Mutant: the enclosing declarator is not consulted.
functionNameOwnOnly(node) == noParamsName(node)

functionName(node) ==
    IF node.id # Absent THEN node.id[1]
    ELSE IF /\ node.parent.type = "VariableDeclarator"
            /\ node.parent.id.type = "Identifier"
    THEN node.parent.id.name
    ELSE "function"

\* A diagnostic: node is the anchor (param 0 is the function node fn itself,
\* param i its i-th parameter; type is the type of the anchored node).
noParamsReport(n) ==
    [node |-> [fn |-> n, param |-> 0, type |-> ast[n].type],
     messageId |-> "useObjectParams",
     data |-> [name |-> noParamsName(ast[n])]]

violationReport(n) ==
    [node |-> [fn |-> n, param |-> firstViolationParam(ast[n].params),
               type |-> ast[n].params[firstViolationParam(ast[n].params)].type],
     messageId |-> "useObjectParams",
     data |-> [name |-> functionName(ast[n]),
               params |-> join(paramNames(ast[n].params), ", "),
               paramsObj |->
                   "{ " \o join(paramNames(ast[n].params), ", ") \o " }"]]

reportsNoParams == ~ignoreNoParams
\* Mutants: the length test is off by one; the option is not read.
skipsSingleParamWhenEmpty(params) == ignoreSingleParam /\ Len(params) = 0
skipsSingleParamAlways(params) == Len(params) = 1
skipsSingleParam(params) == ignoreSingleParam /\ Len(params) = 1
foundViolations(params) ==
    firstViolationParam(params) # 0 /\ Len(paramNames(params)) > 0

\* Mutant: context.report is called inside the loop, once per offending
\* parameter.
classifyPerOffender(n) ==
    LET params == ast[n].params IN
    IF shouldIgnoreFunction(ast[n]) THEN <<>>
    ELSE IF Len(params) = 0
    THEN IF reportsNoParams THEN <<noParamsReport(n)>> ELSE <<>>
    ELSE IF skipsSingleParam(params) THEN <<>>
    ELSE [k \in 1..Len(paramNames(params)) |-> violationReport(n)]

\* What one call of checkParams on ast[n] reports once the file is in scope.
classify(n) ==
    LET params == ast[n].params IN
    IF shouldIgnoreFunction(ast[n]) THEN <<>>
    ELSE IF Len(params) = 0
    THEN IF reportsNoParams THEN <<noParamsReport(n)>> ELSE <<>>
    ELSE IF skipsSingleParam(params) THEN <<>>
    ELSE IF foundViolations(params) THEN <<violationReport(n)>>
    ELSE <<>>

\* Mutant: a flag kept across visits lets only the first report through.
checkParamsOncePerFile(n) ==
    /\ getFilename' = getFilename + (IF readsFilename THEN 1 ELSE 0)
    /\ IF shouldIgnoreFile = "throw"
       THEN raised' = TRUE /\ UNCHANGED <<sink, pos>>
       ELSE
         /\ sink' = sink \o (IF shouldIgnoreFile = "true" \/ sink # <<>>
                             THEN <<>>
                             ELSE classify(n))
         /\ pos' = n + 1
         /\ UNCHANGED raised

\* Mutant: once an exempt function has been entered, the functions that
\* follow it are skipped as well.
checkParamsInheritsExemption(n) ==
    /\ getFilename' = getFilename + (IF readsFilename THEN 1 ELSE 0)
    /\ IF shouldIgnoreFile = "throw"
       THEN raised' = TRUE /\ UNCHANGED <<sink, pos>>
       ELSE
         /\ sink' = sink \o
                (IF \/ shouldIgnoreFile = "true"
                    \/ \E m \in 1..(n - 1) : shouldIgnoreFunction(ast[m])
                 THEN <<>>
                 ELSE classify(n))
         /\ pos' = n + 1
         /\ UNCHANGED raised

\* Mutant: the file exemption is not consulted.
checkParamsWithoutFileCheck(n) ==
    /\ sink' = sink \o classify(n)
    /\ pos' = n + 1
    /\ UNCHANGED <<raised, getFilename>>

checkParams(n) ==
    /\ getFilename' = getFilename + (IF readsFilename THEN 1 ELSE 0)
    /\ IF shouldIgnoreFile = "throw"
       THEN raised' = TRUE /\ UNCHANGED <<sink, pos>>
       ELSE /\ sink' = sink \o (IF shouldIgnoreFile = "true" THEN <<>>
                                ELSE classify(n))
            /\ pos' = n + 1
            /\ UNCHANGED raised

\* ------------------------------------------------------------- the visitor
Visit(type) ==
    /\ ~raised
    /\ pos <= Len(ast)
    /\ ast[pos].type = type
    /\ checkParams(pos)
    /\ UNCHANGED <<options, filename, ast>>

FunctionDeclaration == Visit("FunctionDeclaration")
FunctionExpression == Visit("FunctionExpression")
ArrowFunctionExpression == Visit("ArrowFunctionExpression")

Next ==
    \/ FunctionDeclaration
    \/ FunctionExpression
    \/ ArrowFunctionExpression

\* ------------------------------------------------------ the files analysed
\* Init draws the options, the file name and the function nodes of the file
\* from four corpora, each wide in one dimension of the rule.
Options(fns, methods, ctors, single, noParams, testFiles, files) ==
    [ignoreFunctions |-> fns, ignoreMethods |-> methods,
     ignoreConstructors |-> ctors, ignoreSingleParam |-> single,
     ignoreNoParams |-> noParams, ignoreTestFiles |-> testFiles,
     ignoreFiles |-> files]
OptBool == {Absent, Some(TRUE), Some(FALSE)}

ProgramParent == Parent("Program", Absent, "", FALSE, FALSE, NoNode, NoNode)
ExportDefault ==
    Parent("ExportDefaultDeclaration", Absent, "", FALSE, FALSE, NoNode, NoNode)
CallParent ==
    Parent("CallExpression", Absent, "", FALSE, FALSE, NoNode, NoNode)
Declarator(id) ==
    Parent("VariableDeclarator", Absent, "", FALSE, FALSE, id, NoNode)
Assignment(left) ==
    Parent("AssignmentExpression", Absent, "", FALSE, FALSE, NoNode, left)
Method(key, kind, computed) ==
    Parent("MethodDefinition", Some(key), kind, computed, FALSE, NoNode, NoNode)
ClassProperty(key, computed) ==
    Parent("PropertyDefinition", Some(key), "", computed, FALSE, NoNode, NoNode)
ObjectProperty(key, computed, method) ==
    Parent("Property", Some(key), "init", computed, method, NoNode, NoNode)
ConstructorParent == Method(Identifier("constructor"), "constructor", FALSE)

\* File names.
FileSrc == <<"s", "r", "c", "/", "a", ".", "j", "s">>
FileTest == <<"a", ".", "t", "e", "s", "t", ".", "t", "s">>
FileSpecUpper == <<"a", ".", "S", "p", "e", "c", ".", "J", "S", "X">>
FileTestMts == <<"a", ".", "t", "e", "s", "t", ".", "m", "t", "s">>
FileNamedTest == <<"t", "e", "s", "t", ".", "j", "s">>
FileTestDir ==
    <<"a", ".", "s", "p", "e", "c", ".", "j", "s", "/", "b", ".", "j", "s">>
FileOld == <<"o", "l", "d", "/", "a", ".", "j", "s">>
FileOldSpec ==
    <<"x", "/", "o", "l", "d", "/", "a", ".", "s", "p", "e", "c", ".", "j", "s">>
FileNames ==
    {FileSrc, FileTest, FileSpecUpper, FileTestMts, FileNamedTest,
     FileTestDir, FileOld, FileOldSpec}

\* Glob patterns.
GlobOld == <<"*", "*", "/", "o", "l", "d", "/", "*", "*">>
GlobSrc == <<"s", "r", "c", "/", "*", ".", "j", "s">>
GlobJs == <<"*", ".", "j", "s">>
GlobEmpty == <<>>
FileLists ==
    {Absent, Some(<<>>), Some(<<GlobOld>>), Some(<<GlobSrc>>),
     Some(<<GlobJs, GlobOld>>), Some(<<GlobEmpty>>),
     Some(<<GlobEmpty, GlobOld>>)}

\* Parameter shapes; the parameter at position i binds ParamNameAt(i).
ParamNameAt(i) == <<"a", "b", "c", "d", "e", "f">>[i]
ShapeTags ==
    {"name", "this", "object", "array", "rest", "default", "defaultObject",
     "defaultArray", "property"}
ShapeParam(tag, i) ==
    CASE tag = "name" -> Param("Identifier", ParamNameAt(i), NoNode)
      [] tag = "this" -> Param("Identifier", "this", NoNode)
      [] tag = "object" -> Param("ObjectPattern", "", NoNode)
      [] tag = "array" -> Param("ArrayPattern", "", NoNode)
      [] tag = "rest" -> Param("RestElement", "", NoNode)
      [] tag = "default" ->
            Param("AssignmentPattern", "", Identifier(ParamNameAt(i)))
      [] tag = "defaultObject" ->
            Param("AssignmentPattern", "", Other("ObjectPattern"))
      [] tag = "defaultArray" ->
            Param("AssignmentPattern", "", Other("ArrayPattern"))
      [] tag = "property" -> Param("TSParameterProperty", "", NoNode)
\* `this` comes first, a rest element last, and a parameter property occurs
\* in a constructor only.
ValidTags(f, n, ctor) ==
    \A i \in 1..n :
        /\ f[i] = "this" => i = 1
        /\ f[i] = "rest" => i = n
        /\ f[i] = "property" => ctor
ParamLists(ctor) ==
    UNION {{[i \in 1..n |-> ShapeParam(f[i], i)] :
                f \in {g \in [1..n -> ShapeTags] : ValidTags(g, n, ctor)}} :
           n \in 0..MaxParams}
ParamsAB == <<ShapeParam("name", 1), ShapeParam("name", 2)>>

ShapeNodes ==
    {Fn("FunctionDeclaration", Some("foo"), ProgramParent, ps) :
        ps \in ParamLists(FALSE)}
    \cup {Fn("ArrowFunctionExpression", Absent, Declarator(Identifier("bar")),
             ps) : ps \in ParamLists(FALSE)}
    \cup {Fn("FunctionExpression", Absent,
             Method(Identifier("baz"), "method", FALSE), ps) :
             ps \in ParamLists(FALSE)}
    \cup {Fn("FunctionExpression", Absent, ConstructorParent, ps) :
             ps \in ParamLists(TRUE)}
ShapeOptions ==
    {Options(Absent, Absent, Some(FALSE), single, noParams, Absent, Absent) :
        single \in OptBool, noParams \in OptBool}

\* Keys of class and object members, with the member's `computed` flag.
PublicKeys ==
    {<<Identifier("foo"), FALSE>>, <<Identifier("foo"), TRUE>>,
     <<Literal(StrVal("foo")), FALSE>>, <<Literal(StrVal("foo")), TRUE>>,
     <<Literal(StrVal("")), FALSE>>, <<Literal(NumVal(0)), FALSE>>,
     <<Literal(BoolVal(TRUE)), TRUE>>, <<Literal(NullVal), TRUE>>,
     <<Other("MemberExpression"), TRUE>>, <<Other("TemplateLiteral"), TRUE>>}
ClassKeys == PublicKeys \cup {<<PrivateIdentifier("foo"), FALSE>>}
\* A function value: an arrow, or a function expression with or without a
\* name of its own.
ValueFns(parent) ==
    {Fn("ArrowFunctionExpression", Absent, parent, ParamsAB)}
    \cup {Fn("FunctionExpression", id, parent, ParamsAB) :
             id \in {Absent, Some("foo"), Some("bar")}}
ExemptNodes ==
    {Fn("FunctionExpression", Absent, Method(k[1], "method", k[2]), ParamsAB) :
        k \in ClassKeys}
    \cup {Fn("FunctionExpression", Absent, ConstructorParent, ParamsAB)}
    \cup UNION {ValueFns(ClassProperty(k[1], k[2])) : k \in ClassKeys}
    \cup {Fn("FunctionExpression", Absent, ObjectProperty(k[1], k[2], TRUE),
             ParamsAB) : k \in PublicKeys}
    \cup UNION {ValueFns(ObjectProperty(k[1], k[2], FALSE)) : k \in PublicKeys}
    \cup UNION {ValueFns(parent) :
                   parent \in {Declarator(Identifier("foo")),
                               Declarator(Other("ObjectPattern")),
                               Assignment(Identifier("foo")),
                               Assignment(Other("MemberExpression")),
                               CallParent}}
    \cup {Fn("FunctionDeclaration", Some(name), ProgramParent, ParamsAB) :
             name \in {"foo", "bar"}}
    \cup {Fn("FunctionDeclaration", Absent, ExportDefault, ParamsAB)}
NameLists ==
    {Absent, Some(<<>>), Some(<<"foo">>), Some(<<"0">>), Some(<<"#foo">>),
     Some(<<"">>), Some(<<"constructor">>), Some(<<"bar", "true">>)}
ExemptOptions ==
    {Options(fns, methods, ctors, Absent, Absent, Absent, Absent) :
        fns \in NameLists, methods \in NameLists, ctors \in OptBool}

FooAB == Fn("FunctionDeclaration", Some("foo"), ProgramParent, ParamsAB)
FileOptions ==
    {Options(Absent, Absent, Absent, Absent, Absent, testFiles, files) :
        testFiles \in OptBool, files \in FileLists}

TraversalNodes ==
    {FooAB,
     Fn("ArrowFunctionExpression", Absent, Declarator(Identifier("bar")), <<>>),
     Fn("FunctionExpression", Absent,
        Method(Identifier("baz"), "method", FALSE), <<ShapeParam("name", 1)>>),
     Fn("FunctionExpression", Absent, ConstructorParent, ParamsAB),
     Fn("ArrowFunctionExpression", Absent, CallParent,
        <<ShapeParam("object", 1), ShapeParam("default", 2)>>),
     Fn("FunctionExpression", Some("bar"), Assignment(Identifier("foo")),
        <<ShapeParam("this", 1), ShapeParam("rest", 2)>>)}
TraversalOptions ==
    {Options(Absent, Absent, Absent, Absent, Absent, Absent, Absent),
     Options(Absent, Absent, Some(FALSE), Some(FALSE), Some(FALSE),
             Some(FALSE), Absent),
     Options(Some(<<"foo">>), Some(<<"baz">>), Absent, Some(FALSE),
             Some(FALSE), Absent, Some(<<GlobOld>>)),
     Options(Absent, Absent, Some(FALSE), Absent, Some(FALSE), Some(FALSE),
             Some(<<GlobEmpty>>))}
TraversalFiles == {FileSrc, FileTest, FileOld}
Asts(nodes) == UNION {[1..n -> nodes] : n \in 1..MaxNodes}

Corpus ==
    [options : ShapeOptions, filename : {FileSrc},
     ast : {<<node>> : node \in ShapeNodes}]
    \cup [options : ExemptOptions, filename : {FileSrc},
          ast : {<<node>> : node \in ExemptNodes}]
    \cup [options : FileOptions, filename : FileNames, ast : {<<FooAB>>}]
    \cup [options : TraversalOptions, filename : TraversalFiles,
          ast : Asts(TraversalNodes)]

Init ==
    /\ \E file \in Corpus :
        /\ options = file.options
        /\ filename = file.filename
        /\ ast = file.ast
    /\ pos = 1
    /\ sink = <<>>
    /\ raised = FALSE
    /\ getFilename = 0

Spec == Init /\ [][Next]_vars

\* ------------------------------------------------------------ properties
\* The nodes whose visit has completed, and the diagnostics of one of them.
Visited == 1..(pos - 1)
DiagsOf(i) == SelectSeq(sink, LAMBDA d : d.node.fn = i)
InScope(i) == shouldIgnoreFile = "false" /\ ~shouldIgnoreFunction(ast[i])

\* The parameter shapes the rule is documented to report, stated on the
\* shapes themselves: a plain name other than `this`, or a defaulted name.
IsPlainName(p) == p.type = "Identifier" /\ p.name # "this"
IsDefaultedName(p) ==
    p.type = "AssignmentPattern" /\ p.left.type = "Identifier"
BoundName(p) == IF p.type = "Identifier" THEN p.name ELSE p.left.name
Offenders(params) ==
    SelectSeq(params, LAMBDA p : IsPlainName(p) \/ IsDefaultedName(p))
OffenderNames(params) ==
    [k \in DOMAIN Offenders(params) |-> BoundName(Offenders(params)[k])]

\* C1: a function in scope with two or more parameters is reported if and
\* only if some parameter is a plain or defaulted name, and the reported
\* names are the bound names of all such parameters, left to right.
C1_AllOffendersReported ==
    \A i \in Visited :
        (Len(ast[i].params) >= 2 /\ InScope(i)) =>
            LET names == OffenderNames(ast[i].params) IN
            /\ (DiagsOf(i) # <<>>) <=> (names # <<>>)
            /\ \A k \in DOMAIN DiagsOf(i) :
                   DiagsOf(i)[k].data.params = join(names, ", ")
\* A destructured parameter between two offenders: both names are reported.
C1_Witness ==
    \E i \in Visited :
        /\ InScope(i)
        /\ Len(ast[i].params) = 3
        /\ ast[i].params[1].type = "AssignmentPattern"
        /\ ast[i].params[2].type = "ObjectPattern"
        /\ DiagsOf(i) # <<>>
        /\ DiagsOf(i)[1].data.params = "a, c"

\* C2: a function in scope with no parameters is reported if and only if
\* ignoreNoParams is false; with the option true or omitted nothing is
\* reported.
C2_NoParamsReportedIffOptionFalse ==
    \A i \in Visited :
        (ast[i].params = <<>> /\ InScope(i)) =>
            ((DiagsOf(i) # <<>>) <=> (options.ignoreNoParams = Some(FALSE)))
C2_Witness ==
    \E i \in Visited :
        /\ InScope(i)
        /\ ast[i].params = <<>>
        /\ ast[i].type = "ArrowFunctionExpression"
        /\ options.ignoreNoParams = Some(FALSE)
        /\ DiagsOf(i) # <<>>

\* C3: with ignoreSingleParam true (set or by default) a function in scope
\* with exactly one parameter is never reported, whatever the parameter.
C3_SingleParamIgnored ==
    \A i \in Visited :
        (/\ Len(ast[i].params) = 1
         /\ options.ignoreSingleParam # Some(FALSE)
         /\ InScope(i)) => DiagsOf(i) = <<>>
C3_Witness ==
    \E i \in Visited :
        /\ InScope(i)
        /\ Len(ast[i].params) = 1
        /\ IsPlainName(ast[i].params[1])
        /\ options.ignoreSingleParam = Some(TRUE)
        /\ sink = <<>>

\* C4: with ignoreSingleParam false a function in scope with exactly one
\* parameter is reported if and only if the parameter is a plain or defaulted
\* name, and then with exactly that one name.
C4_SingleParamChecked ==
    \A i \in Visited :
        (/\ Len(ast[i].params) = 1
         /\ options.ignoreSingleParam = Some(FALSE)
         /\ InScope(i)) =>
            LET p == ast[i].params[1] IN
            /\ (DiagsOf(i) # <<>>) <=> (IsPlainName(p) \/ IsDefaultedName(p))
            /\ \A k \in DOMAIN DiagsOf(i) :
                   DiagsOf(i)[k].data.params = BoundName(p)
C4_Witness ==
    \E i \in Visited :
        /\ InScope(i)
        /\ Len(ast[i].params) = 1
        /\ IsDefaultedName(ast[i].params[1])
        /\ options.ignoreSingleParam = Some(FALSE)
        /\ DiagsOf(i) # <<>>
        /\ DiagsOf(i)[1].data.params = "a"

\* C5: every diagnostic in the sink belongs to a node of a file that is not
\* exempt and to a function that no exemption check matches.
C5_NoDiagnosticForExempt ==
    \A k \in DOMAIN sink :
        /\ shouldIgnoreFile = "false"
        /\ ~shouldIgnoreFunction(ast[sink[k].node.fn])
\* An exempt file whose functions would all be reported leaves the sink empty.
C5_Witness ==
    /\ shouldIgnoreFile = "true"
    /\ options.ignoreNoParams = Some(FALSE)
    /\ options.ignoreSingleParam = Some(FALSE)
    /\ pos = 3
    /\ ast[1].params = <<>>
    /\ OffenderNames(ast[2].params) # <<>>
    /\ ~shouldIgnoreFunction(ast[2])
    /\ sink = <<>>

\* What the parameter rules alone say of a function that is in scope.
ExpectReport(node) ==
    IF node.params = <<>> THEN options.ignoreNoParams = Some(FALSE)
    ELSE IF Len(node.params) = 1 /\ options.ignoreSingleParam # Some(FALSE)
    THEN FALSE
    ELSE OffenderNames(node.params) # <<>>

\* C6: once shouldIgnoreFile has been called, it has returned exempt if and
\* only if ignoreTestFiles is on and the path has a test suffix, or the path
\* matches at least one ignoreFiles pattern.
C6_FileExemptIffTestFileOrPattern ==
    (pos > 1 \/ raised) =>
        ((shouldIgnoreFile = "true") <=>
            \/ options.ignoreTestFiles # Some(FALSE) /\ testPattern(filename)
            \/ \E g \in Range(ignoreFiles) : GlobMatch(g, filename, TRUE))

IsConstructor(node) ==
    node.parent.type = "MethodDefinition" /\ node.parent.kind = "constructor"
KeyName(node) ==
    IF node.parent.key = Absent THEN Absent
    ELSE getPropertyKeyName(node.parent.key[1])

\* C7: in a file in scope a constructor is never reported while
\* ignoreConstructors is true (set or by default); with the option false and
\* its key name in neither name list it is reported as the parameter rules
\* say, so constructor(a, b) is reported.
C7_ConstructorExemption ==
    \A i \in Visited :
        (IsConstructor(ast[i]) /\ shouldIgnoreFile = "false") =>
            /\ options.ignoreConstructors # Some(FALSE) => DiagsOf(i) = <<>>
            /\ (/\ options.ignoreConstructors = Some(FALSE)
                /\ KeyName(ast[i]) # Absent
                /\ KeyName(ast[i])[1] \notin ignoreMethods \cup ignoreFunctions)
                   => ((DiagsOf(i) # <<>>) <=> ExpectReport(ast[i]))
C7_Witness ==
    \E i \in Visited :
        /\ IsConstructor(ast[i])
        /\ options.ignoreConstructors = Some(FALSE)
        /\ options.ignoreFunctions = Some(<<"foo">>)
        /\ DiagsOf(i) # <<>>
        /\ DiagsOf(i)[1].data.params = "a, b"

\* A constructor that ignoreConstructors exempts.
ConstructorExempt(node) ==
    IsConstructor(node) /\ options.ignoreConstructors # Some(FALSE)

\* C8: with no other exemption in play, a function that would be reported is
\* exempt exactly when its parent is a class method, class property or
\* object property whose key resolves to a name in ignoreMethods.
C8_MethodKeyExemption ==
    \A i \in Visited :
        (/\ shouldIgnoreFile = "false"
         /\ ignoreFunctions = {}
         /\ ~ConstructorExempt(ast[i])
         /\ ExpectReport(ast[i])) =>
            ((DiagsOf(i) = <<>>) <=>
                /\ ast[i].parent.type \in MemberParentTypes
                /\ KeyName(ast[i]) # Absent
                /\ KeyName(ast[i])[1] \in ignoreMethods)

\* C9: with no other exemption in play, a function that would be reported is
\* exempt when a name of ignoreFunctions is its own name, or when it is
\* anonymous and that name is the identifier its declarator binds, the
\* resolved key of the object property it is the value of, or the identifier
\* it is assigned to; a destructuring declarator or an assignment to a member
\* expression exempts nothing.
C9_FunctionNameExemption ==
    \A i \in Visited :
        (/\ shouldIgnoreFile = "false"
         /\ ignoreMethods = {}
         /\ ~ConstructorExempt(ast[i])
         /\ ExpectReport(ast[i])) =>
            LET node == ast[i]
                parent == ast[i].parent
            IN
            /\ (node.id # Absent /\ node.id[1] \in ignoreFunctions)
                   => DiagsOf(i) = <<>>
            /\ (/\ node.id = Absent
                /\ parent.type = "VariableDeclarator"
                /\ parent.id.type = "Identifier"
                /\ parent.id.name \in ignoreFunctions) => DiagsOf(i) = <<>>
            /\ (/\ node.id = Absent
                /\ parent.type = "Property"
                /\ KeyName(node) # Absent
                /\ KeyName(node)[1] \in ignoreFunctions) => DiagsOf(i) = <<>>
            /\ (/\ node.id = Absent
                /\ parent.type = "AssignmentExpression"
                /\ parent.left.type = "Identifier"
                /\ parent.left.name \in ignoreFunctions) => DiagsOf(i) = <<>>
            /\ (/\ node.id = Absent
                /\ \/ /\ parent.type = "VariableDeclarator"
                      /\ parent.id.type # "Identifier"
                   \/ /\ parent.type = "AssignmentExpression"
                      /\ parent.left.type # "Identifier") => DiagsOf(i) # <<>>

\* C10: a member's key resolves to its text (identifier), to the string form
\* of its value (string, numeric or boolean literal; 0 gives "0") or to "#"
\* and its name (private name); so an anonymous member with key 0 is exempt
\* only through the entry "0", and one with key #foo is exempt through the
\* entry "#foo" of ignoreMethods and through no other entry.
C10_KeyResolution ==
    \A i \in Visited :
        (/\ shouldIgnoreFile = "false"
         /\ ast[i].parent.type \in MemberParentTypes
         /\ ast[i].parent.key # Absent
         /\ ~IsConstructor(ast[i])) =>
            LET node == ast[i]
                key == ast[i].parent.key[1]
            IN
            /\ key.type = "Identifier" => KeyName(node) = <<key.name>>
            /\ (key.type = "Literal" /\ key.value.kind = "string")
                   => KeyName(node) = <<key.value.str>>
            /\ key = Literal(NumVal(0)) => KeyName(node) = <<"0">>
            /\ key = Literal(BoolVal(TRUE)) => KeyName(node) = <<"true">>
            /\ key = PrivateIdentifier("foo") => KeyName(node) = <<"#foo">>
            /\ (key = Literal(NumVal(0)) /\ node.id = Absent /\ ExpectReport(node))
                   => /\ "0" \in ignoreMethods => DiagsOf(i) = <<>>
                      /\ DiagsOf(i) = <<>>
                             => "0" \in ignoreMethods \cup ignoreFunctions
            /\ (/\ key = PrivateIdentifier("foo")
                /\ node.id = Absent
                /\ ExpectReport(node))
                   => ((DiagsOf(i) = <<>>) <=> ("#foo" \in ignoreMethods))
\* A private method #foo is reported although "foo" is in ignoreMethods.
C10_Witness ==
    \E i \in Visited :
        /\ ast[i].parent.type = "MethodDefinition"
        /\ ast[i].parent.key = Some(PrivateIdentifier("foo"))
        /\ options.ignoreMethods = Some(<<"foo">>)
        /\ DiagsOf(i) # <<>>

\* C11: an anonymous member whose key is computed and not a literal is never
\* exempted by a name list: where the parameter rules report it, it is
\* reported, whatever ignoreMethods and ignoreFunctions hold.
C11_ComputedKeyNeverExempt ==
    \A i \in Visited :
        (/\ shouldIgnoreFile = "false"
         /\ ast[i].parent.type \in MemberParentTypes
         /\ ast[i].parent.key # Absent
         /\ ast[i].parent.computed
         /\ ast[i].parent.key[1].type # "Literal"
         /\ ast[i].id = Absent
         /\ ~ConstructorExempt(ast[i])
         /\ ExpectReport(ast[i])) => DiagsOf(i) # <<>>

\* C12: every diagnostic has messageId "useObjectParams" and a data payload
\* with the three fields name, params (the offending names joined by ", ")
\* and paramsObj ("{ " + the joined names + " }").
C12_DiagnosticPayloadComplete ==
    \A k \in DOMAIN sink :
        LET d == sink[k]
            names == OffenderNames(ast[d.node.fn].params)
        IN
        /\ d.messageId = "useObjectParams"
        /\ DOMAIN d.data = {"name", "params", "paramsObj"}
        /\ d.data.params = join(names, ", ")
        /\ d.data.paramsObj = "{ " \o join(names, ", ") \o " }"

\* The diagnostics for offending parameters (not the zero-parameter one).
ParamDiagsOf(i) == SelectSeq(DiagsOf(i), LAMBDA d : d.node.param > 0)

\* C13: a diagnostic for offending parameters names the function by its own
\* name, else by the identifier of the enclosing variable declarator, else
\* by the placeholder "function".
C13_ViolationFunctionName ==
    \A i \in Visited :
        \A k \in DOMAIN ParamDiagsOf(i) :
            LET node == ast[i]
                name == ParamDiagsOf(i)[k].data.name
            IN
            IF node.id # Absent THEN name = node.id[1]
            ELSE IF /\ node.parent.type = "VariableDeclarator"
                    /\ node.parent.id.type = "Identifier"
            THEN name = node.parent.id.name
            ELSE name = "function"
\* An arrow function initialising `bar` is reported under the name "bar".
C13_Witness ==
    \E i \in Visited :
        /\ ast[i].type = "ArrowFunctionExpression"
        /\ ast[i].parent = Declarator(Identifier("bar"))
        /\ ParamDiagsOf(i) # <<>>
        /\ ParamDiagsOf(i)[1].data.name = "bar"

\* An option that is omitted or set to the value the claim gives as default.
TrueOrOmitted(opt) == opt # Some(FALSE)
EmptyOrOmitted(list) == list \in {Absent, Some(<<>>)}

IsThis(p) == p.type = "Identifier" /\ p.name = "this"

\* C15: `this` is never a reported name nor the anchor, yet it counts in the
\* length of the list: (this, b) is scanned and reported with the one name b
\* also when ignoreSingleParam is true, and a lone `this` is never reported.
C15_ThisParameter ==
    \A i \in Visited :
        LET params == ast[i].params IN
        /\ \A k \in DOMAIN ParamDiagsOf(i) :
               LET d == ParamDiagsOf(i)[k] IN
               /\ ~IsThis(params[d.node.param])
               /\ d.data.params = join(OffenderNames(params), ", ")
        /\ (/\ Len(params) = 2
            /\ IsThis(params[1])
            /\ IsPlainName(params[2])
            /\ InScope(i))
               => /\ Len(DiagsOf(i)) = 1
                  /\ DiagsOf(i)[1].data.params = params[2].name
                  /\ DiagsOf(i)[1].node.param = 2
        /\ (Len(params) = 1 /\ IsThis(params[1])) => DiagsOf(i) = <<>>
C15_Witness ==
    \E i \in Visited :
        /\ Len(ast[i].params) = 2
        /\ IsThis(ast[i].params[1])
        /\ options.ignoreSingleParam = Some(TRUE)
        /\ DiagsOf(i) # <<>>
        /\ DiagsOf(i)[1].data.params = "b"
        /\ DiagsOf(i)[1].node.param = 2

\* The shapes the scan is documented to allow.
IsAllowedShape(p) ==
    \/ p.type \in {"ObjectPattern", "ArrayPattern", "RestElement"}
    \/ IsThis(p)
    \/ /\ p.type = "AssignmentPattern"
       /\ p.left.type \in {"ObjectPattern", "ArrayPattern"}
ScanRuns(node) ==
    \/ Len(node.params) >= 2
    \/ Len(node.params) = 1 /\ options.ignoreSingleParam = Some(FALSE)

\* C16: when the scan runs on a function in scope, a parameter of any shape
\* other than the allowed ones causes a diagnostic.
C16_UnrecognisedShapeReported ==
    \A i \in Visited :
        (/\ InScope(i)
         /\ ScanRuns(ast[i])
         /\ \E k \in DOMAIN ast[i].params : ~IsAllowedShape(ast[i].params[k]))
            => DiagsOf(i) # <<>>

\* A diagnostic without the position of its node in the file.
Outcome(diags) ==
    [k \in DOMAIN diags |->
        [param |-> diags[k].node.param, type |-> diags[k].node.type,
         messageId |-> diags[k].messageId, data |-> diags[k].data]]

\* C17: the outcome of a visit depends on the options, the file name and the
\* node only: two visits of equal nodes have equal outcomes, and the outcome
\* recorded for a node is the one a visit of that node alone produces.
C17_OutcomeIsFunctionOfNode ==
    /\ \A i, j \in Visited :
           ast[i] = ast[j] => Outcome(DiagsOf(i)) = Outcome(DiagsOf(j))
    /\ \A i \in Visited :
           Outcome(DiagsOf(i)) =
               Outcome(IF shouldIgnoreFile = "true" THEN <<>> ELSE classify(i))
\* The same reported function visited twice gives the same diagnostic twice.
C17_Witness ==
    /\ pos = 3
    /\ ast[1] = ast[2]
    /\ Len(sink) = 2
    /\ Outcome(DiagsOf(1)) = Outcome(DiagsOf(2))

\* The globs **/*.test.* and **/*.spec.* of the option's description.
TestGlobs ==
    {<<"*", "*", "/", "*", ".", "t", "e", "s", "t", ".", "*">>,
     <<"*", "*", "/", "*", ".", "s", "p", "e", "c", ".", "*">>}

\* C18: with ignoreTestFiles on, a file whose path matches **/*.test.* or
\* **/*.spec.* is exempt, whatever its extension: no visit reports anything.
C18_TestGlobExempt ==
    (/\ pos > 1
     /\ options.ignoreTestFiles # Some(FALSE)
     /\ \E g \in TestGlobs : GlobMatch(g, filename, TRUE)) => sink = <<>>

\* Index of the leftmost offending parameter, 0 when there is none.
LeftmostOffender(params) ==
    IF \E k \in DOMAIN params : IsPlainName(params[k]) \/ IsDefaultedName(params[k])
    THEN CHOOSE k \in DOMAIN params :
            /\ IsPlainName(params[k]) \/ IsDefaultedName(params[k])
            /\ \A j \in 1..(k - 1) :
                   ~(IsPlainName(params[j]) \/ IsDefaultedName(params[j]))
    ELSE 0

\* C19: a diagnostic for offending parameters is anchored at the leftmost
\* offending parameter node (the whole AssignmentPattern for a defaulted
\* name); a diagnostic for a zero-parameter function is anchored at the
\* function node.
C19_Anchor ==
    \A i \in Visited :
        \A k \in DOMAIN DiagsOf(i) :
            LET d == DiagsOf(i)[k]
                params == ast[i].params
            IN
            IF params = <<>>
            THEN d.node.param = 0 /\ d.node.type = ast[i].type
            ELSE /\ d.node.param = LeftmostOffender(params)
                 /\ d.node.param > 0
                 /\ d.node.type = params[d.node.param].type
\* (object, default, name): the anchor is the defaulted second parameter.
C19_Witness ==
    \E i \in Visited :
        /\ Len(ast[i].params) = 3
        /\ ast[i].params[1].type = "ObjectPattern"
        /\ IsDefaultedName(ast[i].params[2])
        /\ IsPlainName(ast[i].params[3])
        /\ DiagsOf(i) # <<>>
        /\ DiagsOf(i)[1].node.param = 2
        /\ DiagsOf(i)[1].node.type = "AssignmentPattern"

\* C20: the diagnostic for a zero-parameter function names the function by
\* its own name, else by the identifier of the enclosing variable declarator,
\* else by the placeholder "function".
C20_NoParamsFunctionName ==
    \A i \in Visited :
        \A k \in DOMAIN DiagsOf(i) :
            LET node == ast[i]
                name == DiagsOf(i)[k].data.name
            IN
            node.params = <<>> =>
                IF node.id # Absent THEN name = node.id[1]
                ELSE IF /\ node.parent.type = "VariableDeclarator"
                        /\ node.parent.id.type = "Identifier"
                THEN name = node.parent.id.name
                ELSE name = "function"

\* A class method, or an object-literal method shorthand.
IsMethod(node) ==
    \/ node.parent.type = "MethodDefinition"
    \/ node.parent.type = "Property" /\ node.parent.method

\* C21: ignoreFunctions never exempts a method: in a file in scope, a class
\* method or method shorthand whose key name is in ignoreFunctions but not
\* in ignoreMethods, and which is not an exempt constructor, is reported as
\* the parameter rules say.
C21_IgnoreFunctionsNeverExemptsMethod ==
    \A i \in Visited :
        (/\ shouldIgnoreFile = "false"
         /\ IsMethod(ast[i])
         /\ ~ConstructorExempt(ast[i])
         /\ KeyName(ast[i]) # Absent
         /\ KeyName(ast[i])[1] \in ignoreFunctions
         /\ KeyName(ast[i])[1] \notin ignoreMethods)
            => ((DiagsOf(i) # <<>>) <=> ExpectReport(ast[i]))

\* C22: during the traversal of one file the path is read, and the patterns
\* matched against it, at most once, however many function nodes are visited.
C22_FileDecisionComputedOnce == getFilename <= 1

\* C23: every step appends no diagnostic or exactly one, leaves the
\* diagnostics already in the sink as they are, and keeps the number of
\* diagnostics at most the number of nodes visited.
C23_AtMostOneDiagnosticPerVisit ==
    [][/\ Len(sink') \in {Len(sink), Len(sink) + 1}
       /\ SubSeq(sink', 1, Len(sink)) = sink
       /\ Len(sink') <= pos' - 1]_vars
\* Two functions with two offending parameters each: two diagnostics.
C23_Witness ==
    /\ pos = 3
    /\ Len(OffenderNames(ast[1].params)) = 2
    /\ Len(OffenderNames(ast[2].params)) = 2
    /\ Len(sink) = 2
    /\ sink[1].node.fn = 1
    /\ sink[2].node.fn = 2

\* A member whose key name ignoreMethods lists.
MethodKeyListed(node) ==
    /\ node.parent.type \in MemberParentTypes
    /\ KeyName(node) # Absent
    /\ KeyName(node)[1] \in ignoreMethods

\* C24: a function with a name of its own is looked up in ignoreFunctions by
\* that name only: when the own name is not listed (and neither ignoreMethods
\* nor ignoreConstructors applies), the function is reported as the parameter
\* rules say, whatever declarator, property key or assignment target holds it.
C24_OwnNameOnly ==
    \A i \in Visited :
        (/\ ast[i].id # Absent
         /\ ast[i].id[1] \notin ignoreFunctions
         /\ ~MethodKeyListed(ast[i])
         /\ ~ConstructorExempt(ast[i])
         /\ shouldIgnoreFile = "false")
            => ((DiagsOf(i) # <<>>) <=> ExpectReport(ast[i]))
\* `const foo = function bar(a, b) {}` with ignoreFunctions ['foo'] is
\* reported, and so are `{ foo: function bar(a, b) {} }` and
\* `foo = function bar(a, b) {}`.
C24_Witness ==
    \E i \in Visited :
        /\ ast[i].type = "FunctionExpression"
        /\ ast[i].id = Some("bar")
        /\ \/ ast[i].parent = Declarator(Identifier("foo"))
           \/ ast[i].parent = Assignment(Identifier("foo"))
           \/ ast[i].parent = ObjectProperty(Identifier("foo"), FALSE, FALSE)
        /\ options.ignoreFunctions = Some(<<"foo">>)
        /\ DiagsOf(i) # <<>>
        /\ DiagsOf(i)[1].data.name = "bar"

\* C25: a visit never raises, whatever the node and the options.
C25_VisitNeverRaises == ~raised

\* C26: a function exemption is not inherited.  A nested function follows
\* its enclosing function in document order: whenever an exempt function has
\* been visited before it, a function is still reported exactly when no
\* exemption check matches its own node and the parameter rules say so; an
\* anonymous callback (parent CallExpression) is reported as the parameter
\* rules say under every name list; an exempt file reports nothing.
C26_ExemptionNotInherited ==
    /\ \A i, j \in Visited :
           (/\ i < j
            /\ shouldIgnoreFunction(ast[i])
            /\ shouldIgnoreFile = "false")
               => /\ DiagsOf(i) = <<>>
                  /\ (DiagsOf(j) # <<>>) <=>
                         (~shouldIgnoreFunction(ast[j]) /\ ExpectReport(ast[j]))
    /\ \A i \in Visited :
           (/\ ast[i].parent.type = "CallExpression"
            /\ ast[i].id = Absent
            /\ shouldIgnoreFile = "false")
               => ((DiagsOf(i) # <<>>) <=> ExpectReport(ast[i]))
    /\ sink # <<>> => shouldIgnoreFile # "true"
\* `function foo(a, b) { cb(({ x }, b = 1) => {}) }` with ignoreFunctions
\* ['foo']: foo is exempt and the callback inside it is reported.
C26_Witness ==
    /\ pos = 3
    /\ options.ignoreFunctions = Some(<<"foo">>)
    /\ ast[1] = FooAB
    /\ ast[2].parent = CallParent
    /\ ast[2].id = Absent
    /\ DiagsOf(1) = <<>>
    /\ Len(DiagsOf(2)) = 1
    /\ DiagsOf(2)[1].data.params = "b"

====
